---------------------------- MODULE Spec2Model ----------------------------
(***************************************************************************)
(* Waste management system: the session store (waste_log, stats) and the   *)
(* pages of the two Streamlit scripts, app.py (the full variant) and       *)
(* streamlit_app.py (the AI variant).                                      *)
(*                                                                         *)
(* One step of the model is one interaction of the user, which makes       *)
(* Streamlit execute the whole script once from top to bottom: the session *)
(* state initialisation block, then the selected page with the widget that *)
(* was triggered returning True.  A state of the model is the state        *)
(* between two script runs: the session state, the widget state and the    *)
(* page that the last run rendered.                                        *)
(*                                                                         *)
(* Text is modelled as a sequence of atoms.  An atom is a non-empty chunk  *)
(* of characters that the program never looks into: a separator (":", ",", *)
(* "%", a blank, a newline), a digit, a sign, or a word.  Quantities are   *)
(* counted in tenths of a kilogram.                                        *)
(***************************************************************************)
EXTENDS Integers, Sequences, FiniteSets, TLC

VARIABLES
    variant,        \* "full" (app.py) or "ai" (streamlit_app.py)
    model,          \* streamlit_app.py:9-13, "configured" or "None"
    page,           \* the value of the sidebar radio
    session_state,  \* st.session_state: a function from its keys
    uploaded_file,  \* the file uploader's widget state: TRUE when a file is held
    external_call,  \* what the external call of the last script run did
    view,           \* what the last script run rendered
    interaction,    \* the interaction that caused the last script run
    record_calls    \* number of runs in which an add handler ran (the runs
                    \* that end with the st.success of a handler)

vars == <<variant, model, page, session_state, uploaded_file, external_call,
          view, interaction, record_calls>>

-----------------------------------------------------------------------------
(* Bounds of the model *)

MaxLog == 2
MaxReplyLines == 3

-----------------------------------------------------------------------------
(* Category taxonomy *)

\* The keys of WASTE_CATEGORIES / waste_types, in dict (insertion) order.
CategoryOrder ==
    <<"plastic", "organic", "reusable", "hazardous", "electronic", "mixed">>

waste_types == {CategoryOrder[i] : i \in 1..Len(CategoryOrder)}

-----------------------------------------------------------------------------
(* Text as sequences of atoms *)

Whitespace == {" ", "\n"}

Digits == <<"0", "1", "2", "3", "4", "5", "6", "7", "8", "9">>

DigitSet == {Digits[i] : i \in 1..10}

DigitValue(a) == (CHOOSE i \in 1..10 : Digits[i] = a) - 1

\* str.lower() on one atom: only the words with capitals change.
LowerAtom(a) ==
    CASE a = "Electronic" -> "electronic"
      [] a = "Plastic" -> "plastic"
      [] a = "WASTE_TYPE" -> "waste_type"
      [] a = "CONFIDENCE" -> "confidence"
      [] a = "ITEMS" -> "items"
      [] a = "Note" -> "note"
      [] OTHER -> a

\* str.lower()
Lower(s) == [i \in 1..Len(s) |-> LowerAtom(s[i])]

RECURSIVE LStrip(_, _)
\* str.lstrip(chars)
LStrip(s, chars) ==
    IF s # <<>> /\ Head(s) \in chars THEN LStrip(Tail(s), chars) ELSE s

RECURSIVE RStrip(_, _)
\* str.rstrip(chars)
RStrip(s, chars) ==
    IF s # <<>> /\ s[Len(s)] \in chars
    THEN RStrip(SubSeq(s, 1, Len(s) - 1), chars)
    ELSE s

\* str.strip()
Strip(s) == RStrip(LStrip(s, Whitespace), Whitespace)

\* sub in s
Contains(s, sub) ==
    \E i \in 0..(Len(s) - Len(sub)) : SubSeq(s, i + 1, i + Len(sub)) = sub

RECURSIVE SplitFrom(_, _, _)
\* The pieces of s split on the atom sep, cur being the piece under way.
SplitFrom(s, sep, cur) ==
    IF s = <<>> THEN <<cur>>
    ELSE IF Head(s) = sep THEN <<cur>> \o SplitFrom(Tail(s), sep, <<>>)
    ELSE SplitFrom(Tail(s), sep, Append(cur, Head(s)))

\* str.split(sep): always at least one piece
Split(s, sep) == SplitFrom(s, sep, <<>>)

RECURSIVE Join(_, _)
\* sep.join(pieces)
Join(pieces, sep) ==
    IF pieces = <<>> THEN <<>>
    ELSE IF Len(pieces) = 1 THEN pieces[1]
    ELSE pieces[1] \o sep \o Join(Tail(pieces), sep)

RECURSIVE DecimalValue(_)
\* The number a non-empty sequence of digits denotes.
DecimalValue(ds) ==
    IF ds = <<>> THEN 0
    ELSE 10 * DecimalValue(SubSeq(ds, 1, Len(ds) - 1)) + DigitValue(ds[Len(ds)])

\* int(ds) for a text without sign or surrounding whitespace: one or more
\* digits give a value, anything else raises ValueError (ok is FALSE).
DigitsParse(ds) ==
    IF ds # <<>> /\ \A i \in 1..Len(ds) : ds[i] \in DigitSet
    THEN [ok |-> TRUE, value |-> DecimalValue(ds)]
    ELSE [ok |-> FALSE, value |-> 0]

Negated(r) == [r EXCEPT !.value = 0 - @]

\* int(t) for a text without surrounding whitespace: one sign is allowed.
SignedParse(t) ==
    IF t # <<>> /\ Head(t) = "-" THEN Negated(DigitsParse(Tail(t)))
    ELSE IF t # <<>> /\ Head(t) = "+" THEN DigitsParse(Tail(t))
    ELSE DigitsParse(t)

\* int(s): surrounding whitespace is ignored.
IntParse(s) == SignedParse(Strip(s))

RECURSIVE NatToText(_)
NatToText(n) ==
    IF n < 10 THEN <<Digits[n + 1]>>
    ELSE Append(NatToText(n \div 10), Digits[(n % 10) + 1])

\* str(n) for an int, as the f-string formats {confidence}
IntToText(n) == IF n < 0 THEN <<"-">> \o NatToText(0 - n) ELSE NatToText(n)


-----------------------------------------------------------------------------
(* Optional values: None is the empty tuple, a value v is <<v>> *)

None == <<>>

Some(v) == <<v>>

\* Python truthiness of an optional text: None and "" are both false.
Truthy(opt) == opt # None /\ opt[1] # <<>>

-----------------------------------------------------------------------------
(* streamlit_app.py: classify_waste_from_image *)

DefaultConfidence == 0

FallbackConfidence == 50

\* result = {'waste_type': 'mixed', 'confidence': 0, 'items': []}
InitialResult ==
    [waste_type |-> "mixed", confidence |-> DefaultConfidence, items |-> <<>>]

\* line.split(':')[1]; every caller has found a ':' in the line first
SplitColonSecond(line) == Split(line, ":")[2]

\* The WASTE_TYPE branch of the loop body
ParseWasteType(result, line) ==
    LET waste_type == Lower(Strip(SplitColonSecond(line)))
    IN  IF Len(waste_type) = 1 /\ waste_type[1] \in waste_types
        THEN [result EXCEPT !.waste_type = waste_type[1]]
        ELSE result

\* The CONFIDENCE branch of the loop body, with its try/except
ParseConfidence(result, line) ==
    LET conf == IntParse(RStrip(Strip(SplitColonSecond(line)), {"%"}))
    IN  IF conf.ok
        THEN [result EXCEPT !.confidence = conf.value]
        ELSE [result EXCEPT !.confidence = FallbackConfidence]

\* The ITEMS branch of the loop body
ParseItems(result, line) ==
    LET items_str == Strip(SplitColonSecond(line))
        pieces == Split(items_str, ",")
    IN  [result EXCEPT !.items = [i \in 1..Len(pieces) |-> Strip(pieces[i])]]

\* Which branch of the if/elif chain a line takes
LineKind(line) ==
    IF Contains(line, <<"WASTE_TYPE", ":">>) THEN "WASTE_TYPE"
    ELSE IF Contains(line, <<"CONFIDENCE", ":">>) THEN "CONFIDENCE"
    ELSE IF Contains(line, <<"ITEMS", ":">>) THEN "ITEMS"
    ELSE "other"

\* One iteration of `for line in lines`
ParseLine(result, line) ==
    CASE LineKind(line) = "WASTE_TYPE" -> ParseWasteType(result, line)
      [] LineKind(line) = "CONFIDENCE" -> ParseConfidence(result, line)
      [] LineKind(line) = "ITEMS" -> ParseItems(result, line)
      [] OTHER -> result

RECURSIVE ParseLines(_, _)
\* for line in lines: ...
ParseLines(result, lines) ==
    IF lines = <<>> THEN result
    ELSE ParseLines(ParseLine(result, Head(lines)), Tail(lines))

\* lines = response_text.strip().split('\n')
ResponseLines(text) == Split(Strip(text), "\n")

\* The parse of a reply text into the result dict
ParseResponse(text) == ParseLines(InitialResult, ResponseLines(text))

NotConfiguredMessage ==
    <<"AI model not configured. Add GEMINI_API_KEY environment variable.">>

\* An outcome of model.generate_content(...) / response.text: it raises an
\* exception whose str() is `message`, or it returns the reply `text`.
Raises(message) ==
    [called |-> TRUE, raises |-> TRUE, message |-> message, text |-> <<>>]

Replies(text) ==
    [called |-> TRUE, raises |-> FALSE, message |-> <<>>, text |-> text]

\* No call of the external service has been made.
NoCall == [called |-> FALSE, raises |-> FALSE, message |-> <<>>, text |-> <<>>]

\* The function without its try/except: the exception of the call leaves it.
classify_without_except(mdl, outcome) ==
    IF mdl = "None"
    THEN [result |-> None, error |-> Some(NotConfiguredMessage), raised |-> FALSE]
    ELSE IF outcome.raises
    THEN [result |-> None, error |-> None, raised |-> TRUE]
    ELSE [result |-> Some(ParseResponse(outcome.text)), error |-> None,
          raised |-> FALSE]

\* classify_waste_from_image(image), given what the external call does:
\* the pair (result, error) it returns; `raised` says whether an exception
\* leaves the function instead, which `except Exception` never lets happen.
classify_waste_from_image(mdl, outcome) ==
    IF mdl = "None"
    THEN [result |-> None, error |-> Some(NotConfiguredMessage), raised |-> FALSE]
    ELSE IF outcome.raises
    THEN [result |-> None,
          error |-> Some(<<"Error analyzing image: ">> \o outcome.message),
          raised |-> FALSE]
    ELSE [result |-> Some(ParseResponse(outcome.text)), error |-> None,
          raised |-> FALSE]

-----------------------------------------------------------------------------
(* The session store *)

\* A session that has run no script yet: st.session_state has no key.
EmptySessionState == <<>>

ZeroStats == [k \in waste_types |-> 0]

\* The assignment without its guard
InitializeWasteLogAlways(s) == ("waste_log" :> <<>>) @@ s

\* if 'waste_log' not in st.session_state: st.session_state.waste_log = []
InitializeWasteLog(s) ==
    IF "waste_log" \notin DOMAIN s THEN s @@ ("waste_log" :> <<>>) ELSE s

\* if 'stats' not in st.session_state: st.session_state.stats = {... 0 ...}
InitializeStats(s) ==
    IF "stats" \notin DOMAIN s THEN s @@ ("stats" :> ZeroStats) ELSE s

\* The "Initialize session state" block of both scripts
InitializeSessionState(s) == InitializeStats(InitializeWasteLog(s))

\* st.session_state.waste_log.append(entry)
AppendEntry(s, entry) == [s EXCEPT !.waste_log = Append(@, entry)]

\* st.session_state.stats[waste_type] += quantity
AddToStats(s, waste_type, quantity) ==
    [s EXCEPT !.stats[waste_type] = @ + quantity]

\* An add handler that forgets the aggregate
RecordWithoutStats(s, entry) == AppendEntry(s, entry)

\* The two statements every add handler ends with
Record(s, entry) ==
    AddToStats(AppendEntry(s, entry), entry.category, entry.quantity)

-----------------------------------------------------------------------------
(* Widgets *)

\* Quantities are in tenths of a kilogram: min_value=0.1, max_value=1000.0,
\* and the quantity of an AI entry, 1.0.
MinQuantity == 1

MaxQuantity == 10000

AIQuantity == 10

\* min_value=0.0
NumberInputAcceptsZero(v, q) ==
    /\ q >= 0
    /\ v = "full" => q <= MaxQuantity

\* No max_value
NumberInputWithoutMaximum(v, q) == q >= MinQuantity

\* st.number_input(..., min_value=0.1[, max_value=1000.0]): whether the
\* control lets the value q be entered.
NumberInputAccepts(v, q) ==
    /\ q >= MinQuantity
    /\ v = "full" => q <= MaxQuantity

\* The options of the sidebar radio; the first is the default.
Pages(v) ==
    IF v = "full"
    THEN <<"Add Waste", "View Statistics", "Waste Guide", "Reports">>
    ELSE <<"Dashboard", "AI Image Recognition", "Add Waste", "Statistics",
           "Guides">>

\* A run in which no button is pressed.
Quiet ==
    [button |-> "none", waste_type |-> "plastic", quantity |-> AIQuantity,
     description |-> <<>>, location |-> "", now |-> "", uploaded_file |-> FALSE]

-----------------------------------------------------------------------------
(* What a script run renders *)

BlankView(pg, w) ==
    [page |-> pg,
     message |-> "none",        \* the banner shown; "exception" when the
                                \* run ended in an uncaught exception
     result |-> None,           \* the classification result displayed
     error |-> None,            \* the error displayed
     add_offered |-> FALSE,     \* the AI page's "Add to Log" button is shown
     total |-> None,            \* the total computed
     entries |-> None,          \* the "Number of Entries" metric
     most_common |-> None,      \* the "Most Common Type" metric
     chart |-> <<>>,            \* rows of the bar chart
     analysis |-> <<>>,         \* rows of the category-wise analysis
     impact |-> {},             \* categories with an impact call-out
     export_offered |-> FALSE,  \* the "Export as CSV" button is shown
     csv |-> None]              \* the payload of the download button

RECURSIVE SumValues(_, _)
\* sum(stats.values()), over the keys in dict order
SumValues(stats, keys) ==
    IF keys = <<>> THEN 0
    ELSE SumValues(stats, SubSeq(keys, 1, Len(keys) - 1)) + stats[keys[Len(keys)]]

RECURSIVE MaxKeyFrom(_, _, _)
\* max(keys, key=stats.get) continued: best is the maximum so far, and a
\* later key replaces it only when its value is strictly greater.
MaxKeyFrom(stats, keys, best) ==
    IF keys = <<>> THEN best
    ELSE MaxKeyFrom(stats, Tail(keys),
                    IF stats[Head(keys)] > stats[best] THEN Head(keys) ELSE best)

RECURSIVE LastMaxKeyFrom(_, _, _)
\* A maximum search in which a later key wins a tie
LastMaxKeyFrom(stats, keys, best) ==
    IF keys = <<>> THEN best
    ELSE LastMaxKeyFrom(stats, Tail(keys),
                        IF stats[Head(keys)] >= stats[best] THEN Head(keys) ELSE best)

MostCommonLastWins(stats) ==
    LastMaxKeyFrom(stats, Tail(CategoryOrder), Head(CategoryOrder))

\* max(st.session_state.stats, key=st.session_state.stats.get)
MostCommon(stats) ==
    MaxKeyFrom(stats, Tail(CategoryOrder), Head(CategoryOrder))

RECURSIVE PositiveRows(_, _)
\* The (key, value) rows of stats with value > 0, in dict order
PositiveRows(stats, keys) ==
    IF keys = <<>> THEN <<>>
    ELSE (IF stats[Head(keys)] > 0
          THEN <<[category |-> Head(keys), amount |-> stats[Head(keys)]]>>
          ELSE <<>>) \o PositiveRows(stats, Tail(keys))

RECURSIVE SumAmounts(_)
\* fig_data['Quantity'].sum()
SumAmounts(rows) ==
    IF rows = <<>> THEN 0
    ELSE SumAmounts(SubSeq(rows, 1, Len(rows) - 1)) + rows[Len(rows)].amount

\* One row of analysis_data: percentage = (amount / total_waste) * 100 is
\* kept as the pair (amount, divisor) of the division the script performs.
AnalysisRow(row, total_waste) ==
    [category |-> row.category, amount |-> row.amount, divisor |-> total_waste]

-----------------------------------------------------------------------------
(* app.py: the pages of the full variant *)

\* The outcome of a run: the session state it leaves, what it rendered, and
\* whether it ended in st.rerun().
Ran(s, v) == [session_state |-> s, view |-> v, rerun |-> FALSE]

\* waste_item = {...}
WasteItem(w) ==
    [timestamp |-> w.now, category |-> w.waste_type, quantity |-> w.quantity,
     description |-> w.description, location |-> w.location]

\* An Add Waste page whose "Clear Form" empties the session store
AddWastePageClearResets(s, pg, w) ==
    IF w.button = "clear_button"
    THEN [session_state |-> [waste_log |-> <<>>, stats |-> ZeroStats],
          view |-> BlankView(pg, w), rerun |-> TRUE]
    ELSE Ran(IF w.button = "add_button" THEN Record(s, WasteItem(w)) ELSE s,
             [BlankView(pg, w) EXCEPT
                !.message = IF w.button = "add_button" THEN "added" ELSE "none"])

\* PAGE: Add Waste
AddWastePage(s, pg, w) ==
    LET added == IF w.button = "add_button" THEN Record(s, WasteItem(w)) ELSE s
        v == [BlankView(pg, w) EXCEPT
                !.message = IF w.button = "add_button" THEN "added" ELSE "none"]
    IN  IF w.button = "clear_button"
        THEN [session_state |-> added, view |-> v, rerun |-> TRUE]
        ELSE Ran(added, v)

\* log_df.to_csv(index=False): the header row and one row per entry
ToCsv(log) ==
    <<<<"timestamp", "category", "quantity", "description", "location">>>> \o
    [i \in 1..Len(log) |->
        <<log[i].timestamp, log[i].category, log[i].quantity,
          log[i].description, log[i].location>>]

\* PAGE: View Statistics
ViewStatisticsPage(s, pg, w) ==
    IF Len(s.waste_log) = 0
    THEN Ran(s, [BlankView(pg, w) EXCEPT !.message = "empty"])
    ELSE LET chart_data == PositiveRows(s.stats, CategoryOrder)
         IN  Ran(s, [BlankView(pg, w) EXCEPT
                       !.chart = chart_data,
                       !.total = Some(SumAmounts(chart_data)),
                       !.export_offered = s.waste_log # <<>>,
                       !.csv = IF s.waste_log # <<>> /\ w.button = "export_button"
                               THEN Some(ToCsv(s.waste_log)) ELSE None])

\* PAGE: Waste Guide
WasteGuidePage(s, pg, w) == Ran(s, [BlankView(pg, w) EXCEPT !.message = "guide"])

\* PAGE: Reports
ReportsPage(s, pg, w) ==
    IF Len(s.waste_log) = 0
    THEN Ran(s, [BlankView(pg, w) EXCEPT !.message = "empty"])
    ELSE LET total_waste == SumValues(s.stats, CategoryOrder)
             rows == PositiveRows(s.stats, CategoryOrder)
         IN  Ran(s, [BlankView(pg, w) EXCEPT
                       !.total = Some(total_waste),
                       !.entries = Some(Len(s.waste_log)),
                       !.most_common = Some(MostCommon(s.stats)),
                       !.impact = {c \in {"organic", "reusable", "hazardous"} :
                                      s.stats[c] > 0},
                       !.analysis = [i \in 1..Len(rows) |->
                                        AnalysisRow(rows[i], total_waste)]])

\* One execution of app.py
AppScript(s0, pg, w) ==
    LET s == InitializeSessionState(s0)
    IN  CASE pg = "Add Waste" -> AddWastePage(s, pg, w)
          [] pg = "View Statistics" -> ViewStatisticsPage(s, pg, w)
          [] pg = "Waste Guide" -> WasteGuidePage(s, pg, w)
          [] pg = "Reports" -> ReportsPage(s, pg, w)

-----------------------------------------------------------------------------
(* streamlit_app.py: the pages of the AI variant *)

\* Dashboard
DashboardPage(s, pg, w) ==
    Ran(s, [BlankView(pg, w) EXCEPT
              !.message = IF Len(s.waste_log) > 0 THEN "none" ELSE "empty"])

\* f"{', '.join(items)} (AI detected, {confidence}% confidence)"
AIDescription(items, confidence) ==
    Join(items, <<",", " ">>) \o <<" (AI detected, ">> \o IntToText(confidence)
        \o <<"% confidence)">>

\* entry = {...} of the AI page
AIEntry(result) ==
    [category |-> result.waste_type, quantity |-> AIQuantity,
     description |-> AIDescription(result.items, result.confidence),
     location |-> "AI Recognized"]

\* The else branch of `if error:`: the results and the "Add to Log" button
AIResultView(s, pg, w, result) ==
    LET v == [BlankView(pg, w) EXCEPT !.result = Some(result), !.add_offered = TRUE]
    IN  IF w.button = "ai_add"
        THEN Ran(Record(s, AIEntry(result)), [v EXCEPT !.message = "added"])
        ELSE Ran(s, v)

\* AI Image Recognition
AIImageRecognitionPage(s, mdl, pg, w, outcome) ==
    IF ~w.uploaded_file
    THEN Ran(s, [BlankView(pg, w) EXCEPT
                   !.message = IF mdl = "None" THEN "not configured" ELSE "ready"])
    ELSE LET classified == classify_waste_from_image(mdl, outcome)
         IN  IF classified.raised
             THEN Ran(s, [BlankView(pg, w) EXCEPT !.message = "exception"])
             ELSE IF Truthy(classified.error)
             THEN Ran(s, [BlankView(pg, w) EXCEPT
                            !.message = "error", !.error = classified.error])
             ELSE AIResultView(s, pg, w, classified.result[1])

\* entry = {...} of the Add Waste page
FormEntry(w) ==
    [category |-> w.waste_type, quantity |-> w.quantity,
     description |-> w.description, location |-> w.location]

\* Add Waste
AIAddWastePage(s, pg, w) ==
    IF w.button = "add_button"
    THEN Ran(Record(s, FormEntry(w)), [BlankView(pg, w) EXCEPT !.message = "added"])
    ELSE Ran(s, BlankView(pg, w))

\* Statistics
StatisticsPage(s, pg, w) ==
    IF Len(s.waste_log) = 0
    THEN Ran(s, [BlankView(pg, w) EXCEPT !.message = "empty"])
    ELSE Ran(s, [BlankView(pg, w) EXCEPT
                   !.total = Some(SumValues(s.stats, CategoryOrder)),
                   !.chart = PositiveRows(s.stats, CategoryOrder)])

\* Guides
GuidesPage(s, pg, w) == Ran(s, [BlankView(pg, w) EXCEPT !.message = "guide"])

\* One execution of streamlit_app.py
StreamlitAppScript(s0, mdl, pg, w, outcome) ==
    LET s == InitializeSessionState(s0)
    IN  CASE pg = "Dashboard" -> DashboardPage(s, pg, w)
          [] pg = "AI Image Recognition" ->
                AIImageRecognitionPage(s, mdl, pg, w, outcome)
          [] pg = "Add Waste" -> AIAddWastePage(s, pg, w)
          [] pg = "Statistics" -> StatisticsPage(s, pg, w)
          [] pg = "Guides" -> GuidesPage(s, pg, w)

-----------------------------------------------------------------------------
(* The inputs of the model *)

\* Quantities the user tries to enter, in tenths of a kilogram: 0, the
\* minimum 0.1, the full variant's maximum 1000.0, and 1000.1.
QuantityAttempts == {0, MinQuantity, MaxQuantity, MaxQuantity + 1}

Descriptions == {<<"bottle", ",", " ", "used">>}

Locations == {"kitchen"}

\* datetime.now().strftime('%Y-%m-%d %H:%M:%S') in app.py; streamlit_app.py
\* reads no clock.
Timestamps(v) ==
    IF v = "full" THEN {"2026-01-01 10:00:00"} ELSE {""}

\* Lines of a reply of the external service
LineHazardous == <<"WASTE_TYPE", ":", " ", "hazardous">>

LineElectronic == <<"WASTE_TYPE", ":", " ", "Electronic">>

LineConfidence73 == <<"CONFIDENCE", ":", " ", "7", "3">>

LineConfidence87 == <<"CONFIDENCE", ":", " ", "8", "7", "%">>

LineItemsBattery == <<"ITEMS", ":", " ", "battery">>

LineItemsPhone == <<"ITEMS", ":", " ", "phone", ",", " ", "charger">>

\* What the external call may do in a session
SessionOutcomes ==
    { Raises(<<>>),
      Raises(<<"quota exceeded">>),
      Replies(Join(<<LineHazardous, LineConfidence73, LineItemsBattery>>, <<"\n">>)),
      Replies(Join(<<LineElectronic, LineConfidence87, LineItemsPhone>>, <<"\n">>)),
      Replies(<<"sorry">>) }

\* The lines the replies of the parsing specification are made of
ReplyLines ==
    { LineElectronic,
      LineConfidence87,
      LineItemsPhone,
      <<"WASTE_TYPE", ":", " ", "metal">>,
      <<"WASTE_TYPE", ":", " ", "plastic", ":", " ", "metal">>,
      <<" ", "WASTE_TYPE", ":", "organic", " ", "CONFIDENCE", ":", " ", "9", "0">>,
      <<"CONFIDENCE", ":", " ", "high">>,
      <<"CONFIDENCE", ":", " ", "1", "5", "0", "%">>,
      <<"CONFIDENCE", ":", "-", "5">>,
      <<"CONFIDENCE", ":", " ", "7", "3", ":", " ", "high">>,
      <<"Note", ":", " ", "CONFIDENCE", ":", " ", "9", "0">>,
      <<"CONFIDENCE", ":", " ", "5", "0", " ", "%", "%">>,
      <<"ITEMS", ":", " ", "bottle", ":", " ", "cap", ",", " ", "phone">>,
      <<"ITEMS", ":">>,
      <<"sorry">>,
      <<>> }

\* Every reply of at most MaxReplyLines of these lines
ReplyTexts ==
    { Join(ls, <<"\n">>) :
        ls \in UNION {[1..n -> ReplyLines] : n \in 0..MaxReplyLines} }

ParseOutcomes == {Raises(<<>>)} \cup {Replies(t) : t \in ReplyTexts}

-----------------------------------------------------------------------------
(* The state machine: one step is one interaction *)

waste_log == session_state.waste_log

stats == session_state.stats

\* One execution of the variant's script
RunScript(v, s0, mdl, pg, w, outcome) ==
    IF v = "full" THEN AppScript(s0, pg, w)
    ELSE StreamlitAppScript(s0, mdl, pg, w, outcome)

\* The script runs an interaction causes: one, and after st.rerun() a second
\* in which no button is pressed.
Interact(v, s0, mdl, pg, w, outcome) ==
    LET first == RunScript(v, s0, mdl, pg, w, outcome)
    IN  IF first.rerun
        THEN RunScript(v, first.session_state, mdl, pg,
                       [w EXCEPT !.button = "none"], outcome)
        ELSE first

\* Whether a run of the page calls the external service
CallsService(v, mdl, pg, w) ==
    v = "ai" /\ pg = "AI Image Recognition" /\ w.uploaded_file /\ mdl # "None"

\* The state a run leaves
Step(name, pg, w, outcome) ==
    LET ran == Interact(variant, session_state, model, pg, w, outcome)
    IN  /\ session_state' = ran.session_state
        /\ view' = ran.view
        /\ page' = pg
        /\ uploaded_file' = w.uploaded_file
        /\ external_call' =
              IF CallsService(variant, model, pg, w) THEN outcome ELSE NoCall
        /\ interaction' = name
        /\ record_calls' =
              record_calls + (IF ran.view.message = "added" THEN 1 ELSE 0)
        /\ UNCHANGED <<variant, model>>

\* The first page load of a session
Init ==
    /\ variant \in {"full", "ai"}
    /\ model \in (IF variant = "ai" THEN {"configured", "None"} ELSE {"None"})
    /\ page = Pages(variant)[1]
    /\ LET ran == Interact(variant, EmptySessionState, model, Pages(variant)[1],
                           Quiet, NoCall)
       IN  /\ session_state = ran.session_state
           /\ view = ran.view
    /\ uploaded_file = FALSE
    /\ external_call = NoCall
    /\ interaction = "load"
    /\ record_calls = 0

\* The sidebar radio is set to another page.
SelectPage(p) ==
    /\ p # page
    /\ Step("select", p, Quiet, NoCall)

\* "Add to Log" on the Add Waste page, with the form's current values
AddWaste(c, q, d, l, t) ==
    /\ page = "Add Waste"
    /\ NumberInputAccepts(variant, q)
    /\ Len(waste_log) < MaxLog
    /\ Step("add", page,
            [button |-> "add_button", waste_type |-> c, quantity |-> q,
             description |-> d, location |-> l, now |-> t,
             uploaded_file |-> FALSE],
            NoCall)

\* "Clear Form" on the Add Waste page of app.py
ClearForm ==
    /\ variant = "full"
    /\ page = "Add Waste"
    /\ Step("clear", page, [Quiet EXCEPT !.button = "clear_button"], NoCall)

\* "Export as CSV" on the View Statistics page of app.py
ExportCsv ==
    /\ variant = "full"
    /\ view.export_offered
    /\ Step("export", page, [Quiet EXCEPT !.button = "export_button"], NoCall)

\* "Download CSV", the button an export shows
DownloadCsv ==
    /\ view.csv # None
    /\ Step("download", page, Quiet, NoCall)

\* A file is put into the uploader of the AI page.
UploadImage(outcome) ==
    /\ variant = "ai"
    /\ page = "AI Image Recognition"
    /\ Step("upload", page, [Quiet EXCEPT !.uploaded_file = TRUE], outcome)

\* The file is taken out of the uploader.
RemoveImage ==
    /\ uploaded_file
    /\ Step("remove", page, Quiet, NoCall)

\* "Add to Log" on the AI page, the button the last run showed.  The press
\* makes the script run again, and that run classifies the held file anew
\* (line 136) before it reaches the button: the handler runs only if this
\* classification succeeds, and with its result.
AIAddToLog(outcome) ==
    /\ view.add_offered
    /\ Len(waste_log) < MaxLog
    /\ Step("ai_add", page,
            [Quiet EXCEPT !.button = "ai_add", !.uploaded_file = TRUE], outcome)

Next ==
    \/ \E i \in 1..5 : i <= Len(Pages(variant)) /\ SelectPage(Pages(variant)[i])
    \/ \E c \in waste_types, q \in QuantityAttempts, d \in Descriptions,
          l \in Locations, t \in Timestamps(variant) : AddWaste(c, q, d, l, t)
    \/ ClearForm
    \/ ExportCsv
    \/ DownloadCsv
    \/ \E o \in SessionOutcomes : UploadImage(o)
    \/ RemoveImage
    \/ \E o \in SessionOutcomes : AIAddToLog(o)

Spec == Init /\ [][Next]_vars

\* A file is put into the empty uploader.
FirstUpload(outcome) ==
    /\ ~uploaded_file
    /\ UploadImage(outcome)

\* The AI variant with one upload per visit of the AI page, and every reply
\* of ReplyTexts
NextParse ==
    \/ \E i \in 1..5 : SelectPage(Pages("ai")[i])
    \/ \E o \in ParseOutcomes : FirstUpload(o)

InitParse == Init /\ variant = "ai"

SpecParse == InitParse /\ [][NextParse]_vars

-----------------------------------------------------------------------------
(* Properties *)

RECURSIVE QuantitySum(_, _)
\* The sum of 'quantity' over the entries of log with category c, added in
\* the order of the log
QuantitySum(log, c) ==
    IF log = <<>> THEN 0
    ELSE QuantitySum(SubSeq(log, 1, Len(log) - 1), c)
         + (IF log[Len(log)].category = c THEN log[Len(log)].quantity ELSE 0)

C2_LogAppendOnly ==
    [][/\ Len(waste_log') >= Len(waste_log)
       /\ SubSeq(waste_log', 1, Len(waste_log)) = waste_log
       /\ \A c \in waste_types : stats'[c] >= stats[c]]_vars

\* A page was selected while the log held two entries.
C2_Witness ==
    /\ interaction = "select"
    /\ Len(waste_log) = 2
    /\ waste_log[1] # waste_log[2]

\* The entry the claim expects for a displayed result
ExpectedAIEntryFor(result, entry) ==
    /\ entry.category = result.waste_type
    /\ entry.quantity = AIQuantity
    /\ entry.location = "AI Recognized"
    /\ Contains(entry.description, Join(result.items, <<",", " ">>))
    /\ Contains(entry.description, IntToText(result.confidence))

\* C3: when the AI page shows the result of a successful classification and
\* its "Add to Log" button is pressed, exactly one entry is appended, built
\* from the result shown (its category, quantity 1.0, location
\* 'AI Recognized', description with the joined items and the confidence), and
\* the aggregate of that category alone grows, by 1.0.
C3_AddCommitsShownResult ==
    [][(interaction' = "ai_add" /\ view.result # None)
        => /\ Len(waste_log') = Len(waste_log) + 1
           /\ SubSeq(waste_log', 1, Len(waste_log)) = waste_log
           /\ ExpectedAIEntryFor(view.result[1], waste_log'[Len(waste_log')])
           /\ stats' = [stats EXCEPT ![view.result[1].waste_type] = @ + AIQuantity]
      ]_vars

\* C4: when the model is None or the external call raises, the run of the AI
\* page with a file ends in no uncaught exception, shows a non-empty error and
\* no result, offers no "Add to Log" button, and leaves the log and the
\* aggregates as they were.
C4_FailureShowsError ==
    [][(/\ page' = "AI Image Recognition"
        /\ uploaded_file'
        /\ (model = "None" \/ external_call'.raises))
        => /\ view'.message = "error"
           /\ Truthy(view'.error)
           /\ view'.result = None
           /\ ~view'.add_offered
           /\ waste_log' = waste_log
           /\ stats' = stats
      ]_vars

\* The "Add to Log" button was pressed, and the external call of the run it
\* caused raised: the error is shown and the log still holds its one entry.
C4_Witness ==
    /\ interaction = "ai_add"
    /\ external_call.raises
    /\ view.message = "error"
    /\ Len(waste_log) = 1

\* The place of a category in the canonical order
OrderIndex(c) == CHOOSE i \in 1..Len(CategoryOrder) : CategoryOrder[i] = c

\* C5: the "Most Common Type" the Reports page shows is a category whose
\* aggregate is the maximum of the six, and among the categories with that
\* maximum it is the first in the canonical order.
C5_MostCommonFirstMaximum ==
    view.most_common # None =>
        LET m == view.most_common[1]
        IN  /\ m \in waste_types
            /\ \A c \in waste_types : stats[c] <= stats[m]
            /\ \A c \in waste_types :
                  stats[c] = stats[m] => OrderIndex(m) <= OrderIndex(c)

\* The Reports page with organic and mixed sharing the maximum
C5_Witness ==
    /\ view.most_common = Some("organic")
    /\ stats["mixed"] = stats["organic"]
    /\ stats["organic"] > 0

\* C6: every division of the Reports page is by a total > 0; a non-empty log
\* makes the sum of the six aggregates > 0; and with an empty log the
\* statistics and reports pages show their empty message and compute no
\* total and no percentage.
C6_TotalPositive ==
    /\ \A i \in 1..Len(view.analysis) : view.analysis[i].divisor > 0
    /\ Len(waste_log) > 0 => SumValues(stats, CategoryOrder) > 0
    /\ (/\ Len(waste_log) = 0
        /\ view.page \in {"View Statistics", "Statistics", "Reports"})
        => /\ view.message = "empty"
           /\ view.total = None
           /\ view.analysis = <<>>
           /\ view.chart = <<>>

\* The Reports page with two rows in its analysis
C6_Witness ==
    /\ view.page = "Reports"
    /\ Len(view.analysis) = 2
    /\ view.total # None

\* Whether a line contains the marker of a field
HasMarker(line, field) == Contains(line, <<field, ":">>)

\* The text of a line after its first colon, all of it
AfterFirstColon(line) ==
    LET first == CHOOSE i \in 1..Len(line) :
                    line[i] = ":" /\ \A j \in 1..(i - 1) : line[j] # ":"
    IN  SubSeq(line, first + 1, Len(line))

\* A text without its trailing '%', if it has one
WithoutTrailingPercent(t) ==
    IF t # <<>> /\ t[Len(t)] = "%" THEN SubSeq(t, 1, Len(t) - 1) ELSE t

\* The lines of the reply that contain the marker of a field
MarkedLines(lines, field) == {i \in 1..Len(lines) : HasMarker(lines[i], field)}

\* C7: the confidence of a result is an integer from 0 to 100; it is 0 when
\* no line of the reply contains the CONFIDENCE: marker, and when one line
\* does, it is the integer the text after that line's first colon parses to,
\* once stripped of whitespace and a trailing '%', or 50 when that text does
\* not parse.
C7_ConfidenceInRange ==
    view.result # None =>
        LET lines == ResponseLines(external_call.text)
            confidence == view.result[1].confidence
            marked == MarkedLines(lines, "CONFIDENCE")
        IN  /\ confidence \in 0..100
            /\ marked = {} => confidence = DefaultConfidence
            /\ \A i \in marked :
                  Cardinality(marked) = 1 =>
                      LET parsed == IntParse(WithoutTrailingPercent(
                                        Strip(AfterFirstColon(lines[i]))))
                      IN  confidence = IF parsed.ok THEN parsed.value
                                       ELSE FallbackConfidence

\* The lines without those whose only marker is that of the field
WithoutField(lines, field) ==
    SelectSeq(lines,
              LAMBDA line :
                 ~(/\ HasMarker(line, field)
                   /\ \A other \in {"WASTE_TYPE", "CONFIDENCE", "ITEMS"} \ {field} :
                         ~HasMarker(line, other)))

\* C8: the category of a result is one of the six keys; it is 'mixed' unless
\* a line of the reply contains the WASTE_TYPE: marker and the text after its
\* first colon, trimmed and lower-cased, is that key; and taking the lines of
\* one field out of the reply leaves the two other fields as they were parsed.
C8_CategoryCanonical ==
    view.result # None =>
        LET lines == ResponseLines(external_call.text)
            result == view.result[1]
        IN  /\ result.waste_type \in waste_types
            /\ result.waste_type # "mixed" =>
                  \E i \in MarkedLines(lines, "WASTE_TYPE") :
                     Lower(Strip(AfterFirstColon(lines[i]))) = <<result.waste_type>>
            /\ LET less == ParseLines(InitialResult, WithoutField(lines, "WASTE_TYPE"))
               IN  less.confidence = result.confidence /\ less.items = result.items
            /\ LET less == ParseLines(InitialResult, WithoutField(lines, "CONFIDENCE"))
               IN  less.waste_type = result.waste_type /\ less.items = result.items
            /\ LET less == ParseLines(InitialResult, WithoutField(lines, "ITEMS"))
               IN  less.waste_type = result.waste_type
                   /\ less.confidence = result.confidence

\* C9: every entry of the log has a quantity of at least 0.1, and in the full
\* variant of at most 1000.0.
C9_QuantityInBounds ==
    \A i \in 1..Len(waste_log) :
       /\ waste_log[i].quantity >= MinQuantity
       /\ variant = "full" => waste_log[i].quantity <= MaxQuantity

\* A log of the full variant that holds both boundary values
C9_Witness ==
    /\ variant = "full"
    /\ Len(waste_log) = 2
    /\ waste_log[1].quantity = MinQuantity
    /\ waste_log[2].quantity = MaxQuantity

\* C10: an interaction that is no add action (selecting a page, which renders
\* it; Clear Form; Export as CSV and its download; putting a file into the
\* uploader or taking it out) leaves the log and the six aggregates unchanged.
C10_OnlyAddsChangeStore ==
    [][interaction' \notin {"add", "ai_add"}
        => waste_log' = waste_log /\ stats' = stats]_vars

\* "Clear Form" was pressed with an entry in the log.
C10_Witness ==
    /\ interaction = "clear"
    /\ Len(waste_log) >= 1

\* The pieces of a text split on commas, each trimmed
TrimmedPieces(t) ==
    LET pieces == Split(t, ",")
    IN  [k \in 1..Len(pieces) |-> Strip(pieces[k])]

\* C11: when one line of the reply contains the ITEMS: marker, the items of
\* the result are the pieces of all the text after that line's first colon,
\* split on commas and trimmed, text after a second colon included; when no
\* line contains the marker, the items are empty.
C11_ItemsAfterFirstColon ==
    view.result # None =>
        LET lines == ResponseLines(external_call.text)
            items == view.result[1].items
            marked == MarkedLines(lines, "ITEMS")
        IN  /\ marked = {} => items = <<>>
            /\ \A i \in marked :
                  Cardinality(marked) = 1 =>
                      items = TrimmedPieces(AfterFirstColon(lines[i]))

=============================================================================
